---- MODULE Spec2Model ----
(***************************************************************************)
(* Suffix array (prefix doubling), LCP array (Kasai) and binary-search     *)
(* pattern lookup of string_suffix_array_lcp_search.c.                     *)
(*                                                                         *)
(* C arrays are functions over 0..n-1, so offsets are the source's.  A     *)
(* text is a sequence of bytes 1..255 (the NUL terminator is implicit).    *)
(* qsort is modelled by its contract: any arrangement of the elements      *)
(* that is ordered by the comparator; elements comparing equal may come    *)
(* out in any relative order.  Two runs of buildSuffixArray on the same    *)
(* text are carried side by side: the first takes any outcome of each      *)
(* sort, the second (suffixes2, ind2, suffixArr2) the outcome that leaves  *)
(* equal elements in offset order.  All runs return the same array exactly *)
(* when every run returns what the second one does.                        *)
(***************************************************************************)
EXTENDS Integers, Sequences, FiniteSets, TLC

VARIABLES txt, n, charSigned, pc, k,
          suffixes, ind, suffixArr,
          suffixes2, ind2, suffixArr2,
          rank, lcp, i, lcpk,
          pat, m, low, high, pos, ncmp

vars == <<txt, n, charSigned, pc, k, suffixes, ind, suffixArr,
          suffixes2, ind2, suffixArr2, rank, lcp, i, lcpk,
          pat, m, low, high, pos, ncmp>>

saVars == <<k, suffixes, ind, suffixArr, suffixes2, ind2, suffixArr2>>
lcpVars == <<rank, lcp, i, lcpk>>
searchVars == <<pat, m, low, high, pos, ncmp>>

----------------------------------------------------------------------------
(* Bounds and inputs *)

MaxLen == 5
MaxPatLen == 2

\* bytes 'a', 'b' and 0xFF
Alphabet == {97, 98, 255}

banana == <<98, 97, 110, 97, 110, 97>>
ana == <<97, 110, 97>>
xyz == <<120, 121, 122>>

SeqsUpTo(S, len) == UNION {[1..l -> S] : l \in 0..len}

Texts == SeqsUpTo(Alphabet, MaxLen) \cup {banana}
Patterns == SeqsUpTo(Alphabet, MaxPatLen) \cup {ana, xyz}

----------------------------------------------------------------------------
(* Characters *)

\* the value of a char object converted to int: char is signed or unsigned
\* as the implementation defines
CharToInt(c) == IF charSigned /\ c >= 128 THEN c - 256 ELSE c

\* s[o] of a NUL-terminated string, as a byte
ByteAt(s, o) == IF o < Len(s) THEN s[o + 1] ELSE 0

----------------------------------------------------------------------------
(* buildSuffixArray *)

SeedRank1(t, o) == IF o + 1 < Len(t) THEN CharToInt(t[o + 2]) ELSE -1

InitSuffixes(t) ==
    [o \in 0..(Len(t) - 1) |->
        [index |-> o, rank0 |-> CharToInt(t[o + 1]), rank1 |-> SeedRank1(t, o)]]

\* a comparator that forgets the tie-break on rank[1]
cmpSuffixFirstRankOnly(sa, sb) == sa.rank0 - sb.rank0

cmpSuffix(sa, sb) ==
    IF sa.rank0 = sb.rank0 THEN sa.rank1 - sb.rank1 ELSE sa.rank0 - sb.rank0

RECURSIVE SortedSeqs(_)
SortedSeqs(S) ==
    IF S = {} THEN {<<>>}
    ELSE UNION {{<<x>> \o r : r \in SortedSeqs(S \ {x})} :
                  x \in {y \in S : \A z \in S : cmpSuffix(y, z) <= 0}}

\* every outcome qsort(arr, cnt, sizeof(Suffix), cmpSuffix) may leave in arr
qsort(arr, cnt) ==
    {[o \in 0..(cnt - 1) |-> s[o + 1]] :
        s \in SortedSeqs({arr[o] : o \in 0..(cnt - 1)})}

\* the outcome of qsort that leaves elements comparing equal in offset order
qsortByOffset(arr, cnt) ==
    CHOOSE r \in qsort(arr, cnt) :
        \A a, b \in 0..(cnt - 1) :
            (a < b /\ cmpSuffix(r[a], r[b]) = 0) => r[a].index < r[b].index

\* the re-rank pass from position j on, with the loop's locals rnk (rank)
\* and prev_rank; yields the array and the index map after the pass
RECURSIVE ReRankFrom(_, _, _, _, _, _)
ReRankFrom(s, id, cnt, j, rnk, prev_rank) ==
    IF j >= cnt THEN [suffixes |-> s, ind |-> id]
    ELSE IF s[j].rank0 = prev_rank /\ s[j].rank1 = s[j - 1].rank1
         THEN ReRankFrom([s EXCEPT ![j].rank0 = rnk],
                         (s[j].index :> j) @@ id, cnt, j + 1, rnk, prev_rank)
         ELSE ReRankFrom([s EXCEPT ![j].rank0 = rnk + 1],
                         (s[j].index :> j) @@ id, cnt, j + 1, rnk + 1, s[j].rank0)

\* a re-rank pass that compares rank[0] with the predecessor's and forgets
\* rank[1]
RECURSIVE ReRankFirstRankOnlyFrom(_, _, _, _, _, _)
ReRankFirstRankOnlyFrom(s, id, cnt, j, rnk, prev_rank) ==
    IF j >= cnt THEN [suffixes |-> s, ind |-> id]
    ELSE IF s[j].rank0 = prev_rank
         THEN ReRankFirstRankOnlyFrom([s EXCEPT ![j].rank0 = rnk],
                         (s[j].index :> j) @@ id, cnt, j + 1, rnk, prev_rank)
         ELSE ReRankFirstRankOnlyFrom([s EXCEPT ![j].rank0 = rnk + 1],
                         (s[j].index :> j) @@ id, cnt, j + 1, rnk + 1, s[j].rank0)

ReRankFirstRankOnly(s, id, cnt) ==
    ReRankFirstRankOnlyFrom([s EXCEPT ![0].rank0 = 0], (s[0].index :> 0) @@ id,
                            cnt, 1, 0, s[0].rank0)

ReRank(s, id, cnt) ==
    ReRankFrom([s EXCEPT ![0].rank0 = 0], (s[0].index :> 0) @@ id,
               cnt, 1, 0, s[0].rank0)

NextRank(s, id, cnt, kk, o) ==
    LET nextIndex == s[o].index + (kk \div 2)
    IN  IF nextIndex < cnt THEN s[id[nextIndex]].rank0 ELSE -1

AssignNextRanks(s, id, cnt, kk) ==
    [o \in 0..(cnt - 1) |-> [s[o] EXCEPT !.rank1 = NextRank(s, id, cnt, kk, o)]]

\* an extraction that copies rank[0] where the offset is meant
ExtractRank(s, cnt) == [o \in 0..(cnt - 1) |-> s[o].rank0]

ExtractIndex(s, cnt) == [o \in 0..(cnt - 1) |-> s[o].index]

LoopTest(kk, cnt) == kk < 2 * cnt

----------------------------------------------------------------------------
(* buildLCPArray *)

InverseOf(sa, cnt) == [o \in 0..(cnt - 1) |-> CHOOSE p \in 0..(cnt - 1) : sa[p] = o]

RECURSIVE Extend(_, _, _, _)
Extend(t, a, b, kk) ==
    IF a + kk < Len(t) /\ b + kk < Len(t) /\ t[a + kk + 1] = t[b + kk + 1]
    THEN Extend(t, a, b, kk + 1)
    ELSE kk

\* a carry that keeps the whole match length for the next offset
NoDecrement(kk) == kk

Decrement(kk) == IF kk > 0 THEN kk - 1 ELSE kk

----------------------------------------------------------------------------
(* searchPattern *)

\* strncmp(p, t + off, cnt): bytes compared as unsigned char, stopping at the
\* first difference, at a NUL, or after cnt bytes
RECURSIVE strncmpFrom(_, _, _, _, _)
strncmpFrom(p, t, off, cnt, j) ==
    IF j >= cnt THEN 0
    ELSE LET c1 == ByteAt(p, j)
             c2 == ByteAt(t, off + j)
         IN  IF c1 # c2 THEN c1 - c2
             ELSE IF c1 = 0 THEN 0
             ELSE strncmpFrom(p, t, off, cnt, j + 1)

\* a bounded compare that stops at the end of the text and calls the
\* characters compared so far a match
RECURSIVE CompareAvailableFrom(_, _, _, _, _)
CompareAvailableFrom(p, t, off, cnt, j) ==
    IF j >= cnt \/ off + j >= Len(t) THEN 0
    ELSE LET c1 == ByteAt(p, j)
             c2 == ByteAt(t, off + j)
         IN  IF c1 # c2 THEN c1 - c2
             ELSE CompareAvailableFrom(p, t, off, cnt, j + 1)

CompareAvailable(p, t, off, cnt) == CompareAvailableFrom(p, t, off, cnt, 0)

\* a compare that looks at the first byte before it looks at the count
CompareAtLeastOne(p, t, off, cnt) ==
    IF ByteAt(p, 0) # ByteAt(t, off) THEN ByteAt(p, 0) - ByteAt(t, off)
    ELSE strncmpFrom(p, t, off, cnt, 0)

strncmp(p, t, off, cnt) == strncmpFrom(p, t, off, cnt, 0)

Mid(lo, hi) == (lo + hi) \div 2

NotFound == -1

----------------------------------------------------------------------------
(* The program *)

Init ==
    /\ txt \in Texts
    /\ n = Len(txt)
    /\ charSigned \in BOOLEAN
    /\ pc = "seed"
    /\ k = 4
    /\ suffixes = <<>> /\ ind = <<>> /\ suffixArr = <<>>
    /\ suffixes2 = <<>> /\ ind2 = <<>> /\ suffixArr2 = <<>>
    /\ rank = <<>> /\ lcp = <<>> /\ i = 0 /\ lcpk = 0
    /\ pat = <<>> /\ m = 0 /\ low = 0 /\ high = 0 /\ pos = NotFound /\ ncmp = 0

\* lines 99-104
SeedRanks ==
    /\ pc = "seed"
    /\ suffixes' = InitSuffixes(txt)
    /\ suffixes2' = InitSuffixes(txt)
    /\ pc' = "sort"
    /\ UNCHANGED <<txt, n, charSigned, k, ind, suffixArr, ind2, suffixArr2,
                   lcpVars, searchVars>>

\* line 107, and line 112's k = 4
InitialSort ==
    /\ pc = "sort"
    /\ suffixes' \in qsort(suffixes, n)
    /\ suffixes2' = qsortByOffset(suffixes2, n)
    /\ k' = 4
    /\ pc' = "loop"
    /\ UNCHANGED <<txt, n, charSigned, ind, suffixArr, ind2, suffixArr2,
                   lcpVars, searchVars>>

\* lines 112-130
ReRankStep ==
    /\ pc = "loop"
    /\ LoopTest(k, n)
    /\ LET r1 == ReRank(suffixes, ind, n)
           r2 == ReRank(suffixes2, ind2, n)
       IN  /\ suffixes' = r1.suffixes /\ ind' = r1.ind
           /\ suffixes2' = r2.suffixes /\ ind2' = r2.ind
    /\ pc' = "nextrank"
    /\ UNCHANGED <<txt, n, charSigned, k, suffixArr, suffixArr2, lcpVars, searchVars>>

\* lines 133-137
NextRankStep ==
    /\ pc = "nextrank"
    /\ suffixes' = AssignNextRanks(suffixes, ind, n, k)
    /\ suffixes2' = AssignNextRanks(suffixes2, ind2, n, k)
    /\ pc' = "resort"
    /\ UNCHANGED <<txt, n, charSigned, k, ind, ind2, suffixArr, suffixArr2,
                   lcpVars, searchVars>>

\* line 140, and line 112's k *= 2.  The entries of ind are dead from here on
\* (lines 116 and 129 rewrite every one of them before line 136 reads any),
\* so they are not carried further.
ReSort ==
    /\ pc = "resort"
    /\ suffixes' \in qsort(suffixes, n)
    /\ suffixes2' = qsortByOffset(suffixes2, n)
    /\ ind' = <<>> /\ ind2' = <<>>
    /\ k' = k * 2
    /\ pc' = "loop"
    /\ UNCHANGED <<txt, n, charSigned, suffixArr, suffixArr2, lcpVars, searchVars>>

\* lines 144-149
Extract ==
    /\ pc = "loop"
    /\ ~LoopTest(k, n)
    /\ suffixArr' = ExtractIndex(suffixes, n)
    /\ suffixArr2' = ExtractIndex(suffixes2, n)
    /\ suffixes' = <<>> /\ ind' = <<>>
    /\ suffixes2' = <<>> /\ ind2' = <<>>
    /\ pc' = "lcprank"
    /\ UNCHANGED <<txt, n, charSigned, k, lcpVars, searchVars>>

\* lines 163-170
BuildRank ==
    /\ pc = "lcprank"
    /\ rank' = InverseOf(suffixArr, n)
    /\ lcp' = <<>>
    /\ lcpk' = 0
    /\ i' = 0
    /\ pc' = "kasai"
    /\ UNCHANGED <<txt, n, charSigned, saVars, searchVars>>

\* lines 171-175
KasaiLast ==
    /\ pc = "kasai"
    /\ i < n
    /\ rank[i] = n - 1
    /\ lcpk' = 0
    /\ i' = i + 1
    /\ UNCHANGED <<txt, n, charSigned, pc, saVars, rank, lcp, searchVars>>

\* lines 171-172, 176-180
KasaiStep ==
    /\ pc = "kasai"
    /\ i < n
    /\ rank[i] # n - 1
    /\ LET j == suffixArr[rank[i] + 1]
           kk == Extend(txt, i, j, lcpk)
       IN  /\ lcp' = (rank[i] :> kk) @@ lcp
           /\ lcpk' = Decrement(kk)
    /\ i' = i + 1
    /\ UNCHANGED <<txt, n, charSigned, pc, saVars, rank, searchVars>>

\* lines 171, 183-184
KasaiDone ==
    /\ pc = "kasai"
    /\ i >= n
    /\ pc' = "pattern"
    /\ UNCHANGED <<txt, n, charSigned, saVars, lcpVars, searchVars>>

\* lines 195-196
SearchStart ==
    /\ pc = "pattern"
    /\ \E p \in Patterns :
          /\ pat' = p
          /\ m' = Len(p)
    /\ low' = 0
    /\ high' = n - 1
    /\ pc' = "search"
    /\ UNCHANGED <<txt, n, charSigned, saVars, lcpVars, pos, ncmp>>

\* lines 198-206
SearchStep ==
    /\ pc = "search"
    /\ low <= high
    /\ LET mid == Mid(low, high)
           res == strncmp(pat, txt, suffixArr[mid], m)
       IN  IF res = 0
           THEN /\ pos' = suffixArr[mid]
                /\ pc' = "done"
                /\ UNCHANGED <<low, high>>
           ELSE IF res < 0
           THEN /\ high' = mid - 1
                /\ UNCHANGED <<low, pos, pc>>
           ELSE /\ low' = mid + 1
                /\ UNCHANGED <<high, pos, pc>>
    /\ ncmp' = ncmp + 1
    /\ UNCHANGED <<txt, n, charSigned, saVars, lcpVars, pat, m>>

\* lines 198, 208
SearchFail ==
    /\ pc = "search"
    /\ low > high
    /\ pos' = NotFound
    /\ pc' = "done"
    /\ UNCHANGED <<txt, n, charSigned, saVars, lcpVars, pat, m, low, high, ncmp>>

Next ==
    \/ SeedRanks
    \/ InitialSort
    \/ ReRankStep
    \/ NextRankStep
    \/ ReSort
    \/ Extract
    \/ BuildRank
    \/ KasaiLast
    \/ KasaiStep
    \/ KasaiDone
    \/ SearchStart
    \/ SearchStep
    \/ SearchFail

Spec == Init /\ [][Next]_vars

----------------------------------------------------------------------------
(* Vocabulary of the properties *)

Arr(seq) == [o \in 0..(Len(seq) - 1) |-> seq[o + 1]]

Min(a, b) == IF a < b THEN a ELSE b

\* Text[o..N)
Suffix(t, o) == SubSeq(t, o + 1, Len(t))

\* the first len characters of Text[o..N), cut off at the end of the text
Prefix(t, o, len) == SubSeq(t, o + 1, Min(o + len, Len(t)))

\* lexicographic order by character ordinal, a proper prefix being smaller
RECURSIVE SeqLess(_, _)
SeqLess(x, y) ==
    IF y = <<>> THEN FALSE
    ELSE IF x = <<>> THEN TRUE
    ELSE IF CharToInt(Head(x)) # CharToInt(Head(y))
         THEN CharToInt(Head(x)) < CharToInt(Head(y))
         ELSE SeqLess(Tail(x), Tail(y))

\* longest common prefix by character-by-character comparison
RECURSIVE CommonPrefixLen(_, _)
CommonPrefixLen(x, y) ==
    IF x = <<>> \/ y = <<>> \/ Head(x) # Head(y) THEN 0
    ELSE 1 + CommonPrefixLen(Tail(x), Tail(y))

PositiveOrdinals(t) == \A q \in 1..Len(t) : CharToInt(t[q]) > 0

IsPermutation(sa, cnt) ==
    /\ DOMAIN sa = 0..(cnt - 1)
    /\ {sa[p] : p \in 0..(cnt - 1)} = 0..(cnt - 1)

StrictlySorted(t, sa) ==
    \A p \in 0..(Len(t) - 2) : SeqLess(Suffix(t, sa[p]), Suffix(t, sa[p + 1]))

ValidSuffixArray(t, sa) == IsPermutation(sa, Len(t)) /\ StrictlySorted(t, sa)

OccursAt(p, t, o) == o + Len(p) <= Len(t) /\ SubSeq(t, o + 1, o + Len(p)) = p

Occurs(p, t) == \E o \in 0..(Len(t) - 1) : OccursAt(p, t, o)

SADone == pc \in {"lcprank", "kasai", "pattern", "search", "done"}

LCPDone == pc \in {"pattern", "search", "done"}

SameTuple(a, b) == a.rank0 = b.rank0 /\ a.rank1 = b.rank1

----------------------------------------------------------------------------
(* Properties *)

\* C1: for a text of positive-ordinal characters the array buildSuffixArray
\* returns is strictly sorted: each suffix is lexicographically smaller than
\* the next one; "banana" gives [5,3,1,0,4,2].
C1_StrictlySorted ==
    (SADone /\ PositiveOrdinals(txt)) =>
        /\ StrictlySorted(txt, suffixArr)
        /\ (txt = banana => suffixArr = Arr(<<5, 3, 1, 0, 4, 2>>))

C1_Witness ==
    SADone /\ txt = banana /\ suffixArr = Arr(<<5, 3, 1, 0, 4, 2>>)

\* C2: the array buildSuffixArray returns has length N and is a permutation
\* of 0..N-1; N = 0 gives the empty array, N = 1 gives [0].
C2_Permutation ==
    SADone =>
        /\ IsPermutation(suffixArr, n)
        /\ (n = 0 => suffixArr = <<>>)
        /\ (n = 1 => suffixArr = Arr(<<0>>))

C2_Witness ==
    SADone /\ n >= 3 /\ k > 4 /\ IsPermutation(suffixArr, n)

\* C3: for SA = buildSuffixArray(text), every entry p in 0..N-2 of the array
\* buildLCPArray returns is the length of the longest common prefix of the
\* suffixes at sorted positions p and p+1; "aaaa" gives [1,2,3] and "banana"
\* gives [1,3,0,0,2].
C3_LCPCorrect ==
    LCPDone =>
        /\ \A p \in 0..(n - 2) :
              /\ p \in DOMAIN lcp
              /\ lcp[p] = CommonPrefixLen(Suffix(txt, suffixArr[p]),
                                          Suffix(txt, suffixArr[p + 1]))
        /\ (txt = <<97, 97, 97, 97>> => \A p \in 0..2 : lcp[p] = Arr(<<1, 2, 3>>)[p])
        /\ (txt = banana => \A p \in 0..4 : lcp[p] = Arr(<<1, 3, 0, 0, 2>>)[p])

C3_Witness ==
    LCPDone /\ txt = banana /\ \A p \in 0..4 : lcp[p] = Arr(<<1, 3, 0, 0, 2>>)[p]

\* C4: searchPattern never returns -1 for a non-empty pattern that occurs at
\* some start offset of the text.
C4_SearchComplete ==
    (pc = "done" /\ m > 0 /\ Occurs(pat, txt)) => pos # NotFound

\* C5: a value o other than -1 returned by searchPattern satisfies 0 <= o,
\* o + m <= N and Text[o..o+m) = pattern; "ana" in "banana" returns 1 or 3.
C5_SearchSound ==
    /\ (pc = "done" /\ pos # NotFound) =>
          (0 <= pos /\ pos + m <= n /\ OccursAt(pat, txt, pos))
    /\ (pc = "done" /\ txt = banana /\ pat = ana) => pos \in {1, 3}

C5_Witness ==
    pc = "done" /\ txt = banana /\ pat = ana /\ pos \in {1, 3}

\* C6: buildSuffixArray returns the same array in every run, however the
\* sorts order the suffixes whose (rank0, rank1) keys are equal: the run that
\* takes any outcome of each sort returns what the run that keeps equal keys
\* in offset order returns.
C6_Deterministic ==
    SADone => suffixArr = suffixArr2

\* C7: for the empty pattern and a text of length N >= 1, searchPattern
\* returns SA[(N-1) div 2] after exactly one comparison, never -1.
C7_EmptyPattern ==
    (pc = "done" /\ m = 0 /\ n >= 1) =>
        /\ pos = suffixArr[(n - 1) \div 2]
        /\ ncmp = 1
        /\ pos # NotFound

C7_Witness ==
    pc = "done" /\ m = 0 /\ n >= 3 /\ pos = suffixArr[(n - 1) \div 2] /\ ncmp = 1

\* C8: after the initial sort and after each completed iteration of the
\* doubling loop, with d the doubling length just completed (k \div 2 at the
\* loop test), two suffixes have identical (rank0, rank1) tuples iff their
\* first min(d, N) characters are identical, and the suffixes are in
\* non-decreasing order of those prefixes.
C8_DoublingInvariant ==
    pc = "loop" =>
        LET d == k \div 2
            P(a) == Prefix(txt, suffixes[a].index, d)
        IN  /\ \A a, b \in 0..(n - 1) :
                  SameTuple(suffixes[a], suffixes[b]) <=> (P(a) = P(b))
            /\ \A a \in 0..(n - 2) : ~SeqLess(P(a + 1), P(a))

\* C9 as stated: after the re-rank pass of the iteration for doubling length
\* k, two suffixes have the same rank0 iff their prefixes of length k are
\* identical.
C9_ReRankClassesOfK ==
    pc = "nextrank" =>
        \A a, b \in 0..(n - 1) :
            (suffixes[a].rank0 = suffixes[b].rank0) <=>
                (Prefix(txt, suffixes[a].index, k) = Prefix(txt, suffixes[b].index, k))

\* C9 as amended: the re-rank pass of the iteration for doubling length k
\* numbers the classes of the (rank0, rank1) tuples the previous sort used:
\* two suffixes get the same new rank0 iff their tuples before the pass were
\* identical, and the first in order gets 0; for a text of positive-ordinal
\* characters that is iff their prefixes of length k/2 are identical.
C9_ReRankClassesOfHalfK ==
    [][ (pc = "loop" /\ pc' = "nextrank") =>
          /\ suffixes'[0].rank0 = 0
          /\ \A a, b \in 0..(n - 1) :
                (suffixes'[a].rank0 = suffixes'[b].rank0) <=>
                    SameTuple(suffixes[a], suffixes[b])
          /\ PositiveOrdinals(txt) =>
                \A a, b \in 0..(n - 1) :
                    (suffixes'[a].rank0 = suffixes'[b].rank0) <=>
                        (Prefix(txt, suffixes'[a].index, k \div 2)
                            = Prefix(txt, suffixes'[b].index, k \div 2)) ]_vars

C9_Witness ==
    /\ pc = "nextrank" /\ k = 8
    /\ \E a, b \in 0..(n - 1) :
          /\ a # b
          /\ suffixes[a].rank0 = suffixes[b].rank0
          /\ Prefix(txt, suffixes[a].index, 8) # Prefix(txt, suffixes[b].index, 8)

\* C10: given a valid suffix array, at the start of every iteration i of the
\* raw-order pass of buildLCPArray the carried counter is at most the longest
\* common prefix of suffix i and its sorted successor, and it is already 0
\* when suffix i is the last one in sorted order.
C10_KasaiCarry ==
    (pc = "kasai" /\ i < n /\ ValidSuffixArray(txt, suffixArr)) =>
        IF rank[i] = n - 1
        THEN lcpk = 0
        ELSE lcpk <= CommonPrefixLen(Suffix(txt, i),
                                     Suffix(txt, suffixArr[rank[i] + 1]))

C10_Witness ==
    /\ pc = "kasai" /\ i < n /\ ValidSuffixArray(txt, suffixArr)
    /\ rank[i] # n - 1
    /\ lcpk > 0

====
